---- MODULE Spec2Model ----
(***************************************************************************)
(* State-machine model of the memory game component in src/src/block.tsx.  *)
(*                                                                         *)
(* The React state cells are the variables; every event handler, timer     *)
(* callback and restart is one action.  The two useEffect hooks that       *)
(* depend on the state (the elapsed-time sampler and the win check) run    *)
(* after every commit, so they are part of each action (Commit below).     *)
(* Handlers read the state of the latest render.  Cards are looked up by    *)
(* id only, so a shuffle changes the order of the deck and nothing else.   *)
(* The time of a pending timeout is kept as the order in which timeouts    *)
(* may fire (mayFire).                                                     *)
(***************************************************************************)
EXTENDS Integers, Sequences, FiniteSets, TLC

\* ---------------------------------------------------------------- bounds
MaxPairs    == 2   \* pairs in the deck of the modelled games
MaxShuffle  == 1   \* shuffles tried: rotations of the deck by 0..MaxShuffle
MaxMoves    == 2   \* completed 2-card selections per game
MaxRestarts == 2   \* restarts per behaviour
MaxNow      == 1   \* clock readings 0..MaxNow

\* ------------------------------------------------------- program constants
CatalogSize  == 12     \* WW2_ITEMS.length
GridRows     == 4      \* the 4 of "gridSize * 4"
BaseScore    == 1000
MovePenalty  == 10
MinScore     == 100
maxScore     == 1000

VARIABLES
  totalPairs,    \* (gridSize * 4) / 2 of the mounted component
  cards,         \* Card[]: sequence of [id, symbol, matched, flipped]
  flippedCards,  \* number[]: the selection set
  matchedPairs,
  moves,
  gameStarted,
  gameWon,
  startTime,
  timeElapsed,
  now,           \* last value read from Date.now()
  timers,        \* pending setTimeout callbacks, in scheduling order
  outbox,        \* completion records posted, in order: one entry per run of
                 \* the win-check effect that posts (to window and to
                 \* window.parent), tagged with the game it was posted in
  game,          \* history: number of restarts so far, names the current game
  last           \* history: the operation that produced this state

vars == <<totalPairs, cards, flippedCards, matchedPairs, moves, gameStarted,
          gameWon, startTime, timeElapsed, now, timers, outbox, game, last>>

\* the game session: everything a player or the host can observe
session == <<cards, flippedCards, matchedPairs, moves, gameStarted, gameWon,
             startTime, timeElapsed>>

\* ------------------------------------------------------------ pure helpers
Max(a, b) == IF a >= b THEN a ELSE b

getGridSize(diff) ==
  CASE diff = "easy"   -> 4
    [] diff = "medium" -> 4
    [] diff = "hard"   -> 6
    [] OTHER           -> 4

totalPairsOf(diff) == (getGridSize(diff) * GridRows) \div 2

Min(a, b) == IF a <= b THEN a ELSE b

\* mutant: the second card of a pair takes the symbol of the next item
gameCards_offByOne(n) ==
  [p \in 1..(2 * Min(n, CatalogSize)) |->
     [id |-> p - 1, symbol |-> p \div 2, matched |-> FALSE, flipped |-> FALSE]]

\* gameCards before the shuffle: WW2_ITEMS.slice(0, n) gives item k the ids
\* 2k and 2k+1
gameCards(n) ==
  [p \in 1..(2 * Min(n, CatalogSize)) |->
     [id |-> p - 1, symbol |-> (p - 1) \div 2, matched |-> FALSE, flipped |-> FALSE]]

\* one outcome of gameCards.sort(() => Math.random() - 0.5): a rotation by k
shuffled(deck, k) ==
  [p \in 1..Len(deck) |-> deck[((p - 1 + k) % Len(deck)) + 1]]

\* cards.find(card => card.id === cardId): index of the first hit, 0 if none
findIndex(cs, cardId) ==
  IF \E i \in 1..Len(cs) : cs[i].id = cardId
    THEN CHOOSE i \in 1..Len(cs) :
           /\ cs[i].id = cardId
           /\ \A j \in 1..(i - 1) : cs[j].id # cardId
    ELSE 0

isMatched(cs, cardId) ==
  LET i == findIndex(cs, cardId) IN IF i = 0 THEN FALSE ELSE cs[i].matched

symbolOf(cs, cardId) == cs[findIndex(cs, cardId)].symbol

includes(s, x) == \E i \in 1..Len(s) : s[i] = x

\* prevCards.map(card => card.id === cardId ? {...card, flipped: true} : card)
flipCard(cs, cardId) ==
  [i \in 1..Len(cs) |->
     IF cs[i].id = cardId THEN [cs[i] EXCEPT !.flipped = TRUE] ELSE cs[i]]

\* mutant: the match callback forgets to turn the pair face down
markMatched_keepFlipped(cs, firstId, secondId) ==
  [i \in 1..Len(cs) |->
     IF cs[i].id = firstId \/ cs[i].id = secondId
       THEN [cs[i] EXCEPT !.matched = TRUE]
       ELSE cs[i]]

\* the map of the match callback
markMatched(cs, firstId, secondId) ==
  [i \in 1..Len(cs) |->
     IF cs[i].id = firstId \/ cs[i].id = secondId
       THEN [cs[i] EXCEPT !.matched = TRUE, !.flipped = FALSE]
       ELSE cs[i]]

\* mutant: the mismatch callback resets the whole card
flipBack_clearsMatched(cs, firstId, secondId) ==
  [i \in 1..Len(cs) |->
     IF cs[i].id = firstId \/ cs[i].id = secondId
       THEN [cs[i] EXCEPT !.flipped = FALSE, !.matched = FALSE]
       ELSE cs[i]]

\* the map of the mismatch callback
flipBack(cs, firstId, secondId) ==
  [i \in 1..Len(cs) |->
     IF cs[i].id = firstId \/ cs[i].id = secondId
       THEN [cs[i] EXCEPT !.flipped = FALSE]
       ELSE cs[i]]

score(mv) == Max(BaseScore - mv * MovePenalty, MinScore)

completionData(mv, te) ==
  [completed |-> TRUE, score |-> score(mv), maxScore |-> maxScore,
   timeSpent |-> te, moves |-> mv, timeElapsed |-> te]

\* ------------------------------------------------------------ the effects
\* The win-check effect runs after a commit in which one of its dependencies
\* changed (totalPairs and difficulty are props and do not change).
winDepsChanged(mp, gs, mv, te) ==
  <<mp, gs, mv, te>> # <<matchedPairs, gameStarted, moves, timeElapsed>>

winFires(mp, gs, mv, te) ==
  winDepsChanged(mp, gs, mv, te) /\ mp = totalPairs /\ gs

\* Commit the state a handler computed and run the win-check effect on it.
Commit(cs, fc, mp, mv, gs, gw, st, te) ==
  /\ cards' = cs
  /\ flippedCards' = fc
  /\ matchedPairs' = mp
  /\ moves' = mv
  /\ gameStarted' = gs
  /\ startTime' = st
  /\ timeElapsed' = te
  /\ gameWon' = IF winFires(mp, gs, mv, te) THEN TRUE ELSE gw
  /\ outbox' = IF winFires(mp, gs, mv, te)
                 THEN Append(outbox, [data |-> completionData(mv, te), game |-> game'])
                 ELSE outbox

NoOp == [op |-> "init", note |-> "", stale |-> FALSE]

Init ==
  /\ totalPairs = MaxPairs
  /\ \E k \in 0..MaxShuffle : cards = shuffled(gameCards(totalPairs), k)
  /\ flippedCards = <<>>
  /\ matchedPairs = 0
  /\ moves = 0
  /\ gameStarted = FALSE
  /\ gameWon = FALSE
  /\ startTime = 0
  /\ timeElapsed = 0
  /\ now = 0
  /\ timers = <<>>
  /\ outbox = <<>>
  /\ game = 0
  /\ last = NoOp

\* ------------------------------------------------------------- operations
\* mutant: the restart forgets setFlippedCards([])
initializeGame_keepsSelection ==
  /\ game < MaxRestarts
  /\ game' = game + 1
  /\ \E k \in 0..MaxShuffle :
       Commit(shuffled(gameCards(totalPairs), k), flippedCards, 0, 0, FALSE,
              FALSE, startTime, 0)
  /\ last' = [op |-> "restart", note |-> "", stale |-> FALSE]
  /\ UNCHANGED <<totalPairs, now, timers>>

\* initializeGame with the shuffle drawn from the rotations in K
initializeGameWith(K) ==
  /\ game < MaxRestarts
  /\ game' = game + 1
  /\ \E k \in K :
       Commit(shuffled(gameCards(totalPairs), k), <<>>, 0, 0, FALSE, FALSE,
              startTime, 0)
  /\ last' = [op |-> "restart", note |-> "", stale |-> FALSE]
  /\ UNCHANGED <<totalPairs, now, timers>>

\* initializeGame, called by the restart button
initializeGame == initializeGameWith(0..MaxShuffle)

\* mutant: the guard on a full selection set is missing
rejection_noFullGuard(cardId) ==
  IF includes(flippedCards, cardId) THEN "member"
  ELSE IF isMatched(cards, cardId) THEN "matched"
  ELSE "none"

\* mutant: the guard on a matched card is missing
rejection_noMatchedGuard(cardId) ==
  IF Len(flippedCards) = 2 THEN "full"
  ELSE IF includes(flippedCards, cardId) THEN "member"
  ELSE "none"

\* which of the three guards of handleCardClick rejects the call, if any
rejection(cardId) ==
  IF Len(flippedCards) = 2 THEN "full"
  ELSE IF includes(flippedCards, cardId) THEN "member"
  ELSE IF isMatched(cards, cardId) THEN "matched"
  ELSE "none"

\* mutant: every accepted selection counts as a move
nextMoves_everyFlip(newFlippedCards) == moves + 1

\* if (newFlippedCards.length === 2) setMoves(prev => prev + 1)
nextMoves(newFlippedCards) ==
  IF Len(newFlippedCards) = 2 THEN moves + 1 ELSE moves

\* the setTimeout that a completed selection schedules
timeoutFor(newFlippedCards) ==
  LET firstId  == newFlippedCards[1]
      secondId == newFlippedCards[2]
      isPair == /\ findIndex(cards, firstId) # 0
                /\ findIndex(cards, secondId) # 0
                /\ symbolOf(cards, firstId) = symbolOf(cards, secondId)
  IN [kind |-> IF isPair THEN "match" ELSE "mismatch",
      firstId |-> firstId, secondId |-> secondId, game |-> game]

\* the moves explored per game: MaxMoves, and never fewer than a win takes
MoveCap == Max(MaxMoves, totalPairs)

\* handleCardClick(cardId), with Date.now() = t
handleCardClick(cardId, t) ==
  LET st == IF ~gameStarted THEN t ELSE startTime
      newFlippedCards == Append(flippedCards, cardId)
      rej == rejection(cardId)
  IN
  /\ now' = IF ~gameStarted THEN t ELSE now
  /\ game' = game
  /\ IF rej # "none"
       THEN /\ Commit(cards, flippedCards, matchedPairs, moves, TRUE, gameWon,
                      st, timeElapsed)
            /\ timers' = timers
       ELSE /\ nextMoves(newFlippedCards) <= MoveCap
            /\ Commit(flipCard(cards, cardId), newFlippedCards, matchedPairs,
                      nextMoves(newFlippedCards), TRUE, gameWon, st, timeElapsed)
            /\ timers' = IF Len(newFlippedCards) = 2
                           THEN Append(timers, timeoutFor(newFlippedCards))
                           ELSE timers
  /\ last' = [op |-> "select",
              note |-> IF rej # "none" THEN rej
                       ELSE IF Len(newFlippedCards) = 2 THEN "second" ELSE "first",
              stale |-> FALSE]
  /\ UNCHANGED totalPairs

selectCard ==
  \E cardId \in 0..(2 * totalPairs - 1) :
    \E t \in now..MaxNow : handleCardClick(cardId, t)

\* A timeout scheduled later fires earlier only if it is a 1000 ms match
\* timeout and every timeout scheduled before it is a 1500 ms mismatch one.
mayFire(i) ==
  \A j \in 1..(i - 1) : timers[j].kind = "mismatch" /\ timers[i].kind = "match"

removeAt(s, i) == [p \in 1..(Len(s) - 1) |-> IF p < i THEN s[p] ELSE s[p + 1]]

\* mutant: the mismatch callback forgets setFlippedCards([])
resolve_mismatchKeepsSelection(i) ==
  LET tm == timers[i] IN
  /\ mayFire(i)
  /\ timers' = removeAt(timers, i)
  /\ game' = game
  /\ IF tm.kind = "match"
       THEN Commit(markMatched(cards, tm.firstId, tm.secondId), <<>>,
                   matchedPairs + 1, moves, gameStarted, gameWon, startTime,
                   timeElapsed)
       ELSE Commit(flipBack(cards, tm.firstId, tm.secondId), flippedCards,
                   matchedPairs, moves, gameStarted, gameWon, startTime,
                   timeElapsed)
  /\ last' = [op |-> "resolve", note |-> tm.kind, stale |-> (tm.game # game)]
  /\ UNCHANGED <<totalPairs, now>>

\* the callback of the setTimeout at position i of the pending timeouts
resolve(i) ==
  LET tm == timers[i] IN
  /\ mayFire(i)
  /\ timers' = removeAt(timers, i)
  /\ game' = game
  /\ IF tm.kind = "match"
       THEN Commit(markMatched(cards, tm.firstId, tm.secondId), <<>>,
                   matchedPairs + 1, moves, gameStarted, gameWon, startTime,
                   timeElapsed)
       ELSE Commit(flipBack(cards, tm.firstId, tm.secondId), <<>>,
                   matchedPairs, moves, gameStarted, gameWon, startTime,
                   timeElapsed)
  /\ last' = [op |-> "resolve", note |-> tm.kind, stale |-> (tm.game # game)]
  /\ UNCHANGED <<totalPairs, now>>

fireTimeout == \E i \in 1..Len(timers) : resolve(i)

\* mutant: the interval is kept when the game is won
samplerTick_ignoresWon ==
  /\ gameStarted
  /\ \E t \in now..MaxNow :
       /\ now' = t
       /\ Commit(cards, flippedCards, matchedPairs, moves, gameStarted, gameWon,
                 startTime, t - startTime)
  /\ game' = game
  /\ last' = [op |-> "tick", note |-> "", stale |-> FALSE]
  /\ UNCHANGED <<totalPairs, timers>>

\* one tick of the setInterval of the timer effect, with Date.now() = t
samplerTick ==
  /\ gameStarted /\ ~gameWon
  /\ \E t \in now..MaxNow :
       /\ now' = t
       /\ Commit(cards, flippedCards, matchedPairs, moves, gameStarted, gameWon,
                 startTime, t - startTime)
  /\ game' = game
  /\ last' = [op |-> "tick", note |-> "", stale |-> FALSE]
  /\ UNCHANGED <<totalPairs, timers>>

Next == initializeGame \/ selectCard \/ fireTimeout \/ samplerTick

Spec == Init /\ [][Next]_vars

\* ------------------------------------------------- the deck of each difficulty
Difficulties == {"easy", "medium", "hard"}

\* the component mounted with each difficulty and each rotation of the deck
InitDeck ==
  /\ \E diff \in Difficulties : totalPairs = totalPairsOf(diff)
  /\ \E k \in 0..(2 * totalPairs - 1) : cards = shuffled(gameCards(totalPairs), k)
  /\ flippedCards = <<>>
  /\ matchedPairs = 0
  /\ moves = 0
  /\ gameStarted = FALSE
  /\ gameWon = FALSE
  /\ startTime = 0
  /\ timeElapsed = 0
  /\ now = 0
  /\ timers = <<>>
  /\ outbox = <<>>
  /\ game = 0
  /\ last = NoOp

rebuildDeck == initializeGameWith(0..(2 * totalPairs - 1))

SpecDeck == InitDeck /\ [][rebuildDeck]_vars

\* ------------------------------------- medium difficulty, a player who knows
\* the deck: the lowest unmatched card first, then the card of the same symbol
InitPerfect ==
  /\ totalPairs = totalPairsOf("medium")
  /\ \E k \in 0..MaxShuffle : cards = shuffled(gameCards(totalPairs), k)
  /\ flippedCards = <<>>
  /\ matchedPairs = 0
  /\ moves = 0
  /\ gameStarted = FALSE
  /\ gameWon = FALSE
  /\ startTime = 0
  /\ timeElapsed = 0
  /\ now = 0
  /\ timers = <<>>
  /\ outbox = <<>>
  /\ game = 0
  /\ last = NoOp

unmatchedIds == {cards[p].id : p \in {q \in 1..Len(cards) : ~cards[q].matched}}

partnerOf(cardId) ==
  CHOOSE other \in {cards[p].id : p \in 1..Len(cards)} :
    other # cardId /\ symbolOf(cards, other) = symbolOf(cards, cardId)

perfectChoice ==
  IF flippedCards = <<>>
    THEN CHOOSE c \in unmatchedIds : \A d \in unmatchedIds : c <= d
    ELSE partnerOf(flippedCards[1])

perfectSelect ==
  /\ Len(flippedCards) < 2
  /\ flippedCards = <<>> => unmatchedIds # {}
  /\ \E t \in now..MaxNow : handleCardClick(perfectChoice, t)

NextPerfect == initializeGame \/ perfectSelect \/ fireTimeout \/ samplerTick

SpecPerfect == InitPerfect /\ [][NextPerfect]_vars

\* The event loop runs every scheduled timeout: a pending callback is not
\* postponed for ever.
FairSpec == Spec /\ WF_vars(fireTimeout)

\* ----------------------------------------------------------------- claims
Ids == 0..(2 * totalPairs - 1)

cardOf(cs, cardId) == cs[findIndex(cs, cardId)]

emitted == Len(outbox') > Len(outbox)

\* the game state that claim C2 lists
play == <<cards, flippedCards, matchedPairs, moves, gameStarted, gameWon>>

\* C1: the completion record is emitted exactly once per game that reaches
\* Won: at the step where the session becomes Won, never while
\* matchedPairs < totalPairs, never by restart, never twice in one game.
C1_OncePerGame ==
  /\ \A i, j \in 1..Len(outbox) : outbox[i].game = outbox[j].game => i = j
  /\ gameWon <=> \E i \in 1..Len(outbox) : outbox[i].game = game

C1_EmittedAtWon ==
  emitted => /\ ~gameWon /\ gameWon'
             /\ matchedPairs' = totalPairs
             /\ last'.op # "restart"

C1_EmittedExactlyOnce == [](C1_OncePerGame) /\ [][C1_EmittedAtWon]_vars

\* C2: the callback of a resolution timer scheduled before a restart changes
\* nothing in the new session when it fires.
C2_StaleTimerNoEffect ==
  [][(last'.op = "resolve" /\ last'.stale) => UNCHANGED play]_vars

\* C3: with 2 ids in the selection set, selectCard changes no state and
\* leaves the scheduled resolution pending.
C3_FullSelectionRejects ==
  [][(last'.op = "select" /\ Len(flippedCards) = 2)
       => UNCHANGED <<session, timers, outbox>>]_vars

C3_Witness ==
  /\ last.op = "select" /\ last.note = "full"
  /\ Len(flippedCards) = 2
  /\ Len(timers) >= 1 /\ timers[Len(timers)].game = game

C5_SelectionSetInvariant ==
  /\ Len(flippedCards) \in {0, 1, 2}
  /\ \A i, j \in 1..Len(flippedCards) : flippedCards[i] = flippedCards[j] => i = j
  /\ \A i \in 1..Len(flippedCards) : \A p \in 1..Len(cards) :
       cards[p].id = flippedCards[i] => ~cards[p].matched

C5_Witness ==
  /\ Len(flippedCards) = 2
  /\ \E p \in 1..Len(cards) : cards[p].matched
  /\ \E i \in 1..Len(timers) : timers[i].game # game

\* C6: the session is Won only with matchedPairs = totalPairs, a started
\* session with matchedPairs = totalPairs is Won, and Won lasts until restart.
C6_WonState ==
  /\ gameWon => matchedPairs = totalPairs
  /\ (gameStarted /\ matchedPairs = totalPairs) => gameWon

C6_WonIffAllMatched ==
  [](C6_WonState) /\ [][(gameWon /\ last'.op # "restart") => gameWon']_vars

\* C7: moves grows by exactly 1 at a selectCard that takes the selection set
\* from 1 to 2 ids, and is unchanged by every other selectCard and by the
\* resolution callbacks.
C7_MovesCountPairs ==
  [][/\ (last'.op = "select" /\ Len(flippedCards) = 1 /\ Len(flippedCards') = 2)
          => moves' = moves + 1
     /\ (last'.op = "select" /\ ~(Len(flippedCards) = 1 /\ Len(flippedCards') = 2))
          => moves' = moves
     /\ last'.op = "resolve" => moves' = moves]_vars

C7_Witness ==
  /\ last.op = "select" /\ last.note = "second"
  /\ moves = 2
  /\ timers[Len(timers)].kind = "mismatch"

\* C8: when the resolution of a pair with equal symbols fires, both cards
\* are matched and face down, matchedPairs is 1 greater, the selection set
\* is empty and no other card changes.
C8_MatchResolution ==
  [][\A i \in 1..Len(timers) :
       (timers[i].kind = "match" /\ resolve(i)) =>
         LET a == timers[i].firstId
             b == timers[i].secondId
         IN /\ cardOf(cards', a).matched /\ ~cardOf(cards', a).flipped
            /\ cardOf(cards', b).matched /\ ~cardOf(cards', b).flipped
            /\ matchedPairs' = matchedPairs + 1
            /\ flippedCards' = <<>>
            /\ Len(cards') = Len(cards)
            /\ \A p \in 1..Len(cards) :
                 /\ cards'[p].id = cards[p].id
                 /\ cards'[p].symbol = cards[p].symbol
                 /\ cards[p].id \notin {a, b} => cards'[p] = cards[p]]_vars

C8_Witness ==
  /\ last.op = "resolve" /\ last.note = "match"
  /\ matchedPairs = 1
  /\ flippedCards = <<>>
  /\ \E cardId \in Ids : isMatched(cards, cardId)

\* C9: when the resolution of a pair with different symbols fires, both
\* cards are face down and unmatched, the selection set is empty, and
\* matchedPairs and moves are unchanged.
C9_MismatchResolution ==
  [][\A i \in 1..Len(timers) :
       (timers[i].kind = "mismatch" /\ resolve(i)) =>
         LET a == timers[i].firstId
             b == timers[i].secondId
         IN /\ ~cardOf(cards', a).matched /\ ~cardOf(cards', a).flipped
            /\ ~cardOf(cards', b).matched /\ ~cardOf(cards', b).flipped
            /\ flippedCards' = <<>>
            /\ matchedPairs' = matchedPairs
            /\ moves' = moves]_vars

\* C10: every emitted completion record has score = max(1000 - 10*moves, 100)
\* within 100..1000, maxScore = 1000, completed = true and moves >= 1.
C10_CompletionRecord ==
  \A i \in 1..Len(outbox) :
    LET d == outbox[i].data IN
    /\ d.score = Max(1000 - 10 * d.moves, 100)
    /\ d.score >= 100 /\ d.score <= 1000
    /\ d.maxScore = 1000
    /\ d.completed = TRUE
    /\ d.moves >= 1

\* C11: immediately after restart, from any state, every card is face down
\* and unmatched, the selection set is empty, moves, matchedPairs and the
\* elapsed time are 0 and the session is NotStarted.
C11_RestartResets ==
  last.op = "restart" =>
    /\ \A p \in 1..Len(cards) : ~cards[p].flipped /\ ~cards[p].matched
    /\ flippedCards = <<>>
    /\ moves = 0
    /\ matchedPairs = 0
    /\ timeElapsed = 0
    /\ ~gameStarted /\ ~gameWon

\* a restart issued while the pair selected in the game before is pending
C11_Witness ==
  /\ last.op = "restart"
  /\ Len(timers) >= 1 /\ timers[Len(timers)].game = game - 1
  /\ flippedCards = <<>> /\ moves = 0

\* C13: within one game a card whose matched flag is true keeps it in every
\* later state.
C13_MatchedIsStable ==
  [][last'.op # "restart" =>
       /\ Len(cards') = Len(cards)
       /\ \A p \in 1..Len(cards) :
            cards[p].matched => (cards'[p].id = cards[p].id /\ cards'[p].matched)]_vars

\* a mismatch was resolved in a game that has a matched card
C13_Witness ==
  /\ last.op = "resolve" /\ last.note = "mismatch"
  /\ \E p \in 1..Len(cards) : cards[p].matched

\* the three preconditions of selectCard, read from the session
rejected(cardId) ==
  \/ Len(flippedCards) = 2
  \/ \E i \in 1..Len(flippedCards) : flippedCards[i] = cardId
  \/ \E p \in 1..Len(cards) : cards[p].id = cardId /\ cards[p].matched

C17_ElapsedChange ==
  /\ timeElapsed' # timeElapsed
       => (last'.op = "restart" \/ (last'.op = "tick" /\ gameStarted /\ ~gameWon))
  /\ last'.op = "tick" => (gameStarted /\ ~gameWon)

C17_SamplingStops ==
  [](~gameStarted => timeElapsed = 0) /\ [][C17_ElapsedChange]_vars

\* a Won session that keeps the elapsed time of the last tick before the win
C17_Witness ==
  /\ gameWon /\ gameStarted
  /\ timeElapsed = 1
  /\ last.op # "tick"

\* C18: matchedPairs is half the number of matched cards and at most
\* totalPairs.
C18_MatchedPairsCount ==
  /\ 2 * matchedPairs = Cardinality({p \in 1..Len(cards) : cards[p].matched})
  /\ matchedPairs <= totalPairs

\* C19: a card is face up exactly when its id is in the selection set.
C19_FlippedIffSelected ==
  \A p \in 1..Len(cards) :
    cards[p].flipped <=> \E i \in 1..Len(flippedCards) : flippedCards[i] = cards[p].id

\* C20: at most one resolution timeout is pending, one is pending exactly
\* when the selection set holds 2 ids, and it refers to those two ids.
C20_OnePendingTimeout ==
  /\ Len(timers) <= 1
  /\ Len(timers) = 1 <=> Len(flippedCards) = 2
  /\ Len(timers) = 1 => flippedCards = <<timers[1].firstId, timers[1].secondId>>

\* C16: whenever the selection set holds 2 ids it is empty again later: the
\* engine does not stay in the pending-resolution state for ever.
C16_PendingEventuallyClears ==
  (Len(flippedCards) = 2) ~> (Len(flippedCards) = 0)

\* a resolution has emptied the selection set and nothing is pending
C16_Witness ==
  /\ last.op = "resolve" /\ ~last.stale
  /\ flippedCards = <<>> /\ timers = <<>>
  /\ moves >= 1

\* C12: for every difficulty the deck built at game start has 2 * totalPairs
\* cards (16, 16, 24), every symbol on exactly two cards, distinct ids, and
\* every card unmatched and face down.
C12_DeckWellFormed ==
  /\ totalPairsOf("easy") = 8 /\ totalPairsOf("medium") = 8
  /\ totalPairsOf("hard") = 12
  /\ \E diff \in Difficulties : totalPairs = totalPairsOf(diff)
  /\ Len(cards) = 2 * totalPairs
  /\ Len(cards) \in {16, 24}
  /\ \A p \in 1..Len(cards) :
       /\ Cardinality({q \in 1..Len(cards) : cards[q].symbol = cards[p].symbol}) = 2
       /\ \A q \in 1..Len(cards) : cards[q].id = cards[p].id => q = p
       /\ ~cards[p].matched /\ ~cards[p].flipped

\* the hard deck, rebuilt by a restart and not in the order it was built in
C12_Witness ==
  /\ last.op = "restart"
  /\ Len(cards) = 24
  /\ cards[1].id # 0

\* C14: at medium difficulty a session is Won only after at least 8 moves,
\* so no completion record has a score above 920; a game of 8 consecutive
\* correct pairs ends Won with moves = 8, matchedPairs = 8 and score 920.
C14_MediumPerfectGame ==
  /\ gameWon => moves >= 8
  /\ \A i \in 1..Len(outbox) : outbox[i].data.score <= 920
  /\ gameWon => /\ moves = 8
                /\ matchedPairs = 8
                /\ outbox[Len(outbox)].data.score = 920
====
